---- MODULE Spec2Model ----
(***************************************************************************)
(* Model of the reporting / export layer of the ECU vulnerability scanner: *)
(*   - fetch-cve edge function  (CVEResolver, cache-aside with TTL)        *)
(*   - generate-report edge function (ReportGenerator) and its client hook *)
(*   - export-sbom edge function (SBOMExporter: CycloneDX, SPDX, SWID)     *)
(***************************************************************************)
EXTENDS Integers, Sequences, FiniteSets, TLC

VARIABLES
    \* ---- fetch-cve: shared store and clock
    cve_cache,      \* rows of table cve_cache: [cve_id, data, fetched_at]
    now,            \* Date.now(), in milliseconds
    \* ---- fetch-cve: one handler invocation per element of Invocations
    pc,             \* position of the invocation in the handler
    cveId,          \* the request's cveId
    cached,         \* `cached`: {} for null, {row} otherwise
    nvdResponse,    \* outcome of the upstream fetch
    cveData,        \* `cveData`: {} before it is built, {row} after
    upsertError,    \* the (unread) error field of the upsert's result
    resp,           \* the Response returned, NoResp before
    \* ---- fetch-cve: history of each invocation
    fetches,        \* number of calls of fetch()
    responses,      \* number of Responses returned
    wrote,          \* TRUE once a step of the invocation changed cve_cache
    checkedAt,      \* Date.now() read by the TTL check (-1 before)
    lastUpsert,     \* per id: the row of the last upsert the store applied
    \* ---- generate-report: the scan's rows in the store, and one invocation
    vulnerabilities_tbl,   \* table vulnerabilities: rows per severity
    compliance_tbl,        \* table compliance_results: rows per status
    gen,                   \* the invocation: query results, summary, Response
    request,               \* what the caller of generate-report asked for
    \* ---- the scan's other rows in the store, and the store's failures
    scans_tbl,             \* table scans: the rows
    sbom_tbl,              \* table sbom_components: the rows of the scan
    faults,                \* the tables whose query returns { data: null, error }
    \* ---- export-sbom: one invocation
    exportRequest,         \* the request body
    exportResp,            \* the Response returned, NoExport before
    \* ---- fetch-cve: CWE extraction from one upstream record
    weaknesses,            \* cve.weaknesses
    cwe_ids                \* the entry's cwe_ids, NotExtracted before

cveVars == <<cve_cache, now, pc, cveId, cached, nvdResponse, cveData,
             upsertError, resp, fetches, responses, wrote, checkedAt,
             lastUpsert>>

reportVars == <<vulnerabilities_tbl, compliance_tbl, gen>>

storeVars == <<scans_tbl, sbom_tbl, faults>>

exportVars == <<exportRequest, exportResp>>

cweVars == <<weaknesses, cwe_ids>>

vars == <<cveVars, reportVars, request, storeVars, exportVars, cweVars>>

-----------------------------------------------------------------------------
(* Bounds *)

MaxTicks == 2   \* the clock advances at most this many hours
MaxRev == 2     \* upstream revisions of a CVE record: 1..MaxRev
MaxVulns == 4   \* vulnerabilities of the scan (SpecReport)
MaxResults == 4 \* compliance results of the scan (SpecReport)
MaxScoreRows == 40 \* compliance results of the scan (SpecScore)
MaxDispatchRows == 1 \* vulnerabilities of the scan (SpecDispatch)
MaxComponents == 2   \* SBOM components of the scan (SpecExport)
MaxStrLen == 3       \* characters of a free-text column (SpecSwid)
MaxWeaknesses == 2   \* entries of cve.weaknesses (SpecCwe)
MaxDescriptions == 2 \* entries of a weakness's description (SpecCwe)

(* fetch-cve: constants of the handler *)

HourMs == 60 * 60 * 1000
oneDayMs == 24 * 60 * 60 * 1000

\* The clock starts 23 hours after the rows present at start were fetched.
Epoch == 23 * HourMs

Invocations == {"r1", "r2"}
CveIds == {"CVE-A", "CVE-B"}
Revs == 1..MaxRev

\* Request bodies: req.json() throws, cveId missing, or a cveId.
Bodies == {"invalid", "missing"} \cup CveIds
Methods == {"OPTIONS", "POST"}

\* A cache row. data stands for the fields extracted from the upstream record;
\* fetched_at is kept in milliseconds: new Date().toISOString() written and
\* new Date(fetched_at).getTime() read back give the same millisecond.
Row(id, data, at) == [cve_id |-> id, data |-> data, fetched_at |-> at]

NoResp == [status |-> 0, error |-> "", entry |-> {}]
JsonError(status, msg) == [status |-> status, error |-> msg, entry |-> {}]
JsonEntry(rowset) == [status |-> 200, error |-> "", entry |-> rowset]
Preflight == [status |-> 200, error |-> "preflight", entry |-> {}]

-----------------------------------------------------------------------------
(* fetch-cve: store operations *)

\* .from('cve_cache').select('*').eq('cve_id', id)
SelectByCveId(rows, id) == {r \in rows : r.cve_id = id}

\* .maybeSingle(): the row when exactly one matches, null otherwise
MaybeSingle(rows) == IF Cardinality(rows) = 1 THEN rows ELSE {}

\* A variant with ignoreDuplicates: an existing row is kept.
UpsertIgnoreDuplicates(rows, row) ==
    IF \E r \in rows : r.cve_id = row.cve_id THEN rows ELSE rows \cup {row}

\* .upsert(row, { onConflict: 'cve_id' }): insert or replace by cve_id
Upsert(rows, row) == {r \in rows : r.cve_id # row.cve_id} \cup {row}

\* A variant with an inclusive bound.
IsFreshInclusive(row, t) == t - row.fetched_at <= oneDayMs

\* cacheAge < oneDayMs
IsFresh(row, t) == t - row.fetched_at < oneDayMs

-----------------------------------------------------------------------------
(* fetch-cve: the handler, split at its suspension points *)

\* History: the invocation's step changed the cache table.
Track(i) ==
    /\ wrote' = [wrote EXCEPT ![i] = @ \/ (cve_cache' # cve_cache)]
    /\ UNCHANGED <<reportVars, request, storeVars, exportVars, cweVars>>

Respond(i, r) ==
    /\ resp' = [resp EXCEPT ![i] = r]
    /\ responses' = [responses EXCEPT ![i] = @ + 1]
    /\ pc' = [pc EXCEPT ![i] = "done"]

\* Lines 10-33: pre-flight, body parsing, validation, issue of the lookup.
Start(i) ==
    /\ pc[i] = "idle"
    /\ \E m \in Methods, b \in Bodies :
         IF m = "OPTIONS"
         THEN /\ Respond(i, Preflight)
              /\ UNCHANGED cveId
         ELSE IF b = "invalid"
         THEN /\ Respond(i, JsonError(500, "invalid body"))
              /\ UNCHANGED cveId
         ELSE IF b = "missing"
         THEN /\ Respond(i, JsonError(400, "CVE ID required"))
              /\ UNCHANGED cveId
         ELSE /\ cveId' = [cveId EXCEPT ![i] = b]
              /\ pc' = [pc EXCEPT ![i] = "lookup"]
              /\ UNCHANGED <<resp, responses>>
    /\ UNCHANGED <<cve_cache, now, cached, nvdResponse, cveData, upsertError,
                   fetches, checkedAt, lastUpsert>>
    /\ Track(i)

\* Lines 29-33: the store answers the lookup; a failed query yields data null.
LookupRead(i) ==
    /\ pc[i] = "lookup"
    /\ \E ok \in BOOLEAN :
         cached' = [cached EXCEPT ![i] =
                      IF ok THEN MaybeSingle(SelectByCveId(cve_cache, cveId[i]))
                            ELSE {}]
    /\ pc' = [pc EXCEPT ![i] = "check"]
    /\ UNCHANGED <<cve_cache, now, cveId, nvdResponse, cveData, upsertError,
                   resp, responses, fetches, checkedAt, lastUpsert>>
    /\ Track(i)

\* Lines 35-57: TTL check; a fresh row is returned, otherwise fetch() is called.
LookupReturn(i) ==
    /\ pc[i] = "check"
    /\ checkedAt' = [checkedAt EXCEPT ![i] = now]
    /\ IF cached[i] # {} /\ (\A row \in cached[i] : IsFresh(row, now))
       THEN /\ Respond(i, JsonEntry(cached[i]))
            /\ UNCHANGED fetches
       ELSE /\ fetches' = [fetches EXCEPT ![i] = @ + 1]
            /\ pc' = [pc EXCEPT ![i] = "await_fetch"]
            /\ UNCHANGED <<resp, responses>>
    /\ UNCHANGED <<cve_cache, now, cveId, cached, nvdResponse, cveData,
                   upsertError, lastUpsert>>
    /\ Track(i)

FetchOutcomes == {"throws", "not_ok", "ok_malformed", "ok_empty", "ok_match"}

\* Lines 59-73: non-success status: the stale row if any, 502 otherwise.
NotOkAlways502(i) == JsonError(502, "Failed to fetch from NVD")

NotOkResponse(i) ==
    IF cached[i] # {} THEN JsonEntry(cached[i])
                      ELSE JsonError(502, "Failed to fetch from NVD")

\* Lines 76-78: `cve` is truthy, the handler goes on to build cveData.
HasRecordOrEmpty(o) == o \in {"ok_match", "ok_empty"}

HasRecord(o) == o = "ok_match"

\* Lines 50-83 and 131-139: the Response of the paths that end at the fetch.
\* A rejected fetch and an undecodable body are caught by the catch block.
EarlyReturn(i, o) ==
    CASE o = "throws"       -> JsonError(500, "fetch failed")
      [] o = "not_ok"       -> NotOkResponse(i)
      [] o = "ok_malformed" -> JsonError(500, "malformed body")
      [] OTHER              -> JsonError(404, "CVE not found")

\* A variant that calls fetch() again after a non-success status.
FetchReturnRetry(i) ==
    /\ pc[i] = "await_fetch"
    /\ \E o \in FetchOutcomes, rev \in Revs :
         /\ nvdResponse' = [nvdResponse EXCEPT ![i] = o]
         /\ IF HasRecord(o)
            THEN /\ cveData' = [cveData EXCEPT ![i] = {Row(cveId[i], rev, now)}]
                 /\ pc' = [pc EXCEPT ![i] = "upsert"]
                 /\ UNCHANGED <<resp, responses, fetches>>
            ELSE IF o = "not_ok" /\ fetches[i] < 2
            THEN /\ fetches' = [fetches EXCEPT ![i] = @ + 1]
                 /\ UNCHANGED <<resp, responses, pc, cveData>>
            ELSE /\ Respond(i, EarlyReturn(i, o))
                 /\ UNCHANGED <<cveData, fetches>>
    /\ UNCHANGED <<cve_cache, now, cveId, cached, upsertError, checkedAt,
                   lastUpsert>>
    /\ Track(i)

\* Lines 50-123: the fetch settles; the body is decoded, and either a Response
\* is returned or cveData is built (fetched_at = now) and the upsert is issued.
FetchReturn(i) ==
    /\ pc[i] = "await_fetch"
    /\ \E o \in FetchOutcomes, rev \in Revs :
         /\ nvdResponse' = [nvdResponse EXCEPT ![i] = o]
         /\ IF HasRecord(o)
            THEN /\ cveData' = [cveData EXCEPT ![i] = {Row(cveId[i], rev, now)}]
                 /\ pc' = [pc EXCEPT ![i] = "upsert"]
                 /\ UNCHANGED <<resp, responses>>
            ELSE /\ Respond(i, EarlyReturn(i, o))
                 /\ UNCHANGED cveData
    /\ UNCHANGED <<cve_cache, now, cveId, cached, upsertError, fetches,
                   checkedAt, lastUpsert>>
    /\ Track(i)

\* Lines 123-129: the store applies the upsert or fails; the result is not
\* read, and cveData is returned.
UpsertReturn(i) ==
    /\ pc[i] = "upsert"
    /\ \E ok \in BOOLEAN, row \in cveData[i] :
         /\ upsertError' = [upsertError EXCEPT ![i] = IF ok THEN "null" ELSE "error"]
         /\ cve_cache' = IF ok THEN Upsert(cve_cache, row) ELSE cve_cache
         /\ lastUpsert' = IF ok THEN [lastUpsert EXCEPT ![row.cve_id] = {row}]
                                ELSE lastUpsert
    /\ Respond(i, JsonEntry(cveData[i]))
    /\ UNCHANGED <<now, cveId, cached, nvdResponse, cveData, fetches, checkedAt>>
    /\ Track(i)

\* An hour passes.
Tick ==
    /\ now < Epoch + MaxTicks * HourMs
    /\ now' = now + HourMs
    /\ UNCHANGED <<cve_cache, pc, cveId, cached, nvdResponse, cveData,
                   upsertError, resp, fetches, responses, wrote, checkedAt,
                   lastUpsert>>
    /\ UNCHANGED <<reportVars, request, storeVars, exportVars, cweVars>>

-----------------------------------------------------------------------------
(* generate-report: IEEE-754 double arithmetic of the compliance score.     *)
(* A positive double is [exp, d1, d2, d3]: its 53-bit significand followed  *)
(* by a zero bit makes a 54-bit number S, held as three 18-bit limbs        *)
(* (S = d1 * 2^36 + d2 * 2^18 + d3, d1 >= 2^17, d3 even); its value is      *)
(* S * 2^(exp - 54). Zero has all limbs zero.                               *)

Limb == 2^18

DoubleZero == [exp |-> 0, d1 |-> 0, d2 |-> 0, d3 |-> 0]
DoubleOne == [exp |-> 1, d1 |-> Limb \div 2, d2 |-> 0, d3 |-> 0]

\* Round to nearest, ties to even. n1, n2, n3 are the limbs of a 54-bit number
\* (53 significand bits and a guard bit) followed by a tail that is non-zero
\* iff sticky; the value rounded is (n + tail) * 2^(exp - 54).
RoundToDouble(n1, n2, n3, sticky, exp) ==
    LET guard == n3 % 2
        lsb == (n3 \div 2) % 2
        up == guard = 1 /\ (sticky \/ lsb = 1)
        e3 == (n3 - guard) + (IF up THEN 2 ELSE 0)
        e2 == n2 + (e3 \div Limb)
        e1 == n1 + (e2 \div Limb)
    IN  IF e1 = Limb
        THEN [exp |-> exp + 1, d1 |-> Limb \div 2, d2 |-> 0, d3 |-> 0]
        ELSE [exp |-> exp, d1 |-> e1, d2 |-> e2 % Limb, d3 |-> e3 % Limb]

\* Number of zero bits of r / t (0 < r < t) before its first one bit.
RECURSIVE LeadingZeros(_, _)
LeadingZeros(r, t) == IF 2 * r >= t THEN 0 ELSE 1 + LeadingZeros(2 * r, t)

\* p / t in double arithmetic, for 0 <= p <= t, 0 < t: long division, 18 bits
\* at a time, of the quotient scaled into [1/2, 1).
DoubleDiv(p, t) ==
    IF p = 0 THEN DoubleZero
    ELSE IF p = t THEN DoubleOne
    ELSE LET z == LeadingZeros(p, t)
             q == p * (2^z)
             n1 == (q * Limb) \div t
             r1 == (q * Limb) % t
             n2 == (r1 * Limb) \div t
             r2 == (r1 * Limb) % t
             n3 == (r2 * Limb) \div t
             r3 == (r2 * Limb) % t
         IN  RoundToDouble(n1, n2, n3, r3 # 0, -z)

\* x * 100 in double arithmetic: the exact product (61 or 60 bits), cut to 54
\* bits and rounded once.
DoubleTimes100(x) ==
    IF x.d1 = 0 THEN DoubleZero
    ELSE LET m3 == x.d3 * 100
             m2 == (x.d2 * 100) + (m3 \div Limb)
             m1 == (x.d1 * 100) + (m2 \div Limb)
             p3 == m3 % Limb
             p2 == m2 % Limb
             k == IF m1 >= (2^24) THEN 7 ELSE 6
             n1 == m1 \div (2^k)
             n2 == ((m1 % (2^k)) * (2^(18 - k))) + (p2 \div (2^k))
             n3 == ((p2 % (2^k)) * (2^(18 - k))) + (p3 \div (2^k))
         IN  RoundToDouble(n1, n2, n3, (p3 % (2^k)) # 0, x.exp + k)

\* Math.round of a double in [0, 2^17): the nearest integer, a tie going up.
MathRound(x) ==
    IF x.d1 = 0 \/ x.exp < 0 THEN 0
    ELSE (x.d1 \div (2^(18 - x.exp))) + ((x.d1 \div (2^(17 - x.exp))) % 2)

-----------------------------------------------------------------------------
(* generate-report: queries and summary statistics *)

Severities == <<"critical", "high", "medium", "low", "info">>
Statuses == <<"pass", "fail", "warning">>

Range(f) == {f[x] : x \in DOMAIN f}

Repeat(row, n) == [k \in 1..n |-> row]

\* Number of rows of a table given as rows per key.
RECURSIVE SumOver(_, _)
SumOver(tbl, keys) ==
    IF keys = {} THEN 0
    ELSE LET x == CHOOSE y \in keys : TRUE
         IN  tbl[x] + SumOver(tbl, keys \ {x})

TableSize(tbl) == SumOver(tbl, DOMAIN tbl)

\* .from('vulnerabilities').select('*').order('severity', { ascending: true })
VulnerabilityRows(tbl) ==
    Repeat([severity |-> Severities[1]], tbl[Severities[1]])
    \o Repeat([severity |-> Severities[2]], tbl[Severities[2]])
    \o Repeat([severity |-> Severities[3]], tbl[Severities[3]])
    \o Repeat([severity |-> Severities[4]], tbl[Severities[4]])
    \o Repeat([severity |-> Severities[5]], tbl[Severities[5]])

\* .from('compliance_results').select('*'), in one order of the store's rows
ComplianceRows(tbl) ==
    Repeat([status |-> Statuses[1]], tbl[Statuses[1]])
    \o Repeat([status |-> Statuses[2]], tbl[Statuses[2]])
    \o Repeat([status |-> Statuses[3]], tbl[Statuses[3]])

\* { data } of a query: null when the query failed
QueryData(ok, rows) == [isNull |-> ~ok, rows |-> IF ok THEN rows ELSE <<>>]
NoData == [isNull |-> TRUE, rows |-> <<>>]

\* data?.length || 0
LengthOr0(data) == IF data.isNull THEN 0 ELSE Len(data.rows)

\* vulnerabilities?.filter(v => v.severity === key).length || 0
CountSeverity(data, key) ==
    IF data.isNull THEN 0
    ELSE Cardinality({k \in 1..Len(data.rows) : data.rows[k].severity = key})

\* complianceResults?.filter(c => c.status === key).length || 0
CountStatus(data, key) ==
    IF data.isNull THEN 0
    ELSE Cardinality({k \in 1..Len(data.rows) : data.rows[k].status = key})

\* A variant whose last bucket compares against another spelling.
vulnStatsMisspelled(data) ==
    [critical |-> CountSeverity(data, "critical"),
     high     |-> CountSeverity(data, "high"),
     medium   |-> CountSeverity(data, "medium"),
     low      |-> CountSeverity(data, "low"),
     info     |-> CountSeverity(data, "informational")]

vulnStats(data) ==
    [critical |-> CountSeverity(data, "critical"),
     high     |-> CountSeverity(data, "high"),
     medium   |-> CountSeverity(data, "medium"),
     low      |-> CountSeverity(data, "low"),
     info     |-> CountSeverity(data, "info")]

complianceStats(data) ==
    [pass    |-> CountStatus(data, "pass"),
     fail    |-> CountStatus(data, "fail"),
     warning |-> CountStatus(data, "warning")]

\* report.summary.compliance_score
compliance_score(stats) ==
    IF stats.pass + stats.fail + stats.warning > 0
    THEN MathRound(DoubleTimes100(
             DoubleDiv(stats.pass, stats.pass + stats.fail + stats.warning)))
    ELSE 0

\* report.summary (the SBOM count excepted)
summary(vulnData, complianceData) ==
    [total_vulnerabilities   |-> LengthOr0(vulnData),
     vulnerability_breakdown |-> vulnStats(vulnData),
     compliance_breakdown    |-> complianceStats(complianceData),
     compliance_score        |-> compliance_score(complianceStats(complianceData))]

\* ---- the request, as the hook sends it and as the handler parses it

\* An absent field of a JSON body, an absent argument of the hook.
Undefined == "undefined"

\* !x on a string or an absent value
Falsy(x) == x \in {Undefined, ""}

ReportFormats == {"json", "markdown", "pdf"}
Queries == {"scans", "vulnerabilities", "compliance_results",
            "sbom_components", "analysis_logs"}

\* useGenerateReport: the body of supabase.functions.invoke('generate-report')
useGenerateReport(scanId, format) ==
    LET f == IF format = Undefined THEN "json" ELSE format
    IN  [scanId |-> scanId, format |-> IF f = "pdf" THEN "json" ELSE f]

\* The body the handler receives: through the hook, or posted as it is.
RequestBody(r) ==
    IF r.client = "hook"
    THEN useGenerateReport(r.scanId, r.format)
    ELSE [scanId |-> r.scanId, format |-> r.format]

\* ---- the Responses of the handler

\* scan-report-${scanId}<ext>
ReportFileName(scanId, ext) == <<"scan-report-", scanId, ext>>

ReportError(status, msg) ==
    [status |-> status, contentType |-> "application/json",
     filename |-> <<>>, error |-> msg,
     vulnerabilities |-> NoData, complianceResults |-> NoData,
     summary |-> summary(NoData, NoData)]

NoGen == [ReportError(0, "") EXCEPT !.contentType = ""]

\* .eq('id', scanId)
SelectScan(scans, scanId) == {row \in scans : row.id = scanId}

\* .single(): the row when the query succeeded and matched exactly one,
\* otherwise data null and an error.
Single(matched, failed) ==
    IF failed \/ Cardinality(matched) # 1
    THEN [data |-> {}, error |-> TRUE]
    ELSE [data |-> matched, error |-> FALSE]

\* The message of the error a failed query returns in its result.
StoreMessage == "store error"

\* if (scanError || !scan) return 404
ScanNotFound(scan) == ReportError(404, "Scan not found")

\* The handler, from req.json() to the Response it returns.  The sbom and
\* analysis-log queries only feed lists of the report; their data, null on a
\* failure, is read with ?. like the other two.
ServeGenerateReport(r, scans, failing, vulnTbl, complTbl) ==
    IF r.malformed
    THEN ReportError(500, "Unexpected end of JSON input")
    ELSE
    LET body == RequestBody(r)
        scanId == body.scanId
        format == IF body.format = Undefined THEN "json" ELSE body.format
        scan == Single(SelectScan(scans, scanId), "scans" \in failing)
        vulnerabilities ==
            QueryData("vulnerabilities" \notin failing,
                      VulnerabilityRows(vulnTbl))
        complianceResults ==
            QueryData("compliance_results" \notin failing,
                      ComplianceRows(complTbl))
    IN  IF Falsy(scanId) THEN ReportError(400, "Scan ID required")
        ELSE IF scan.error \/ scan.data = {} THEN ScanNotFound(scan)
        ELSE [status |-> 200,
              contentType |-> IF format = "json" THEN "application/json"
                              ELSE "text/markdown",
              filename |-> IF format = "json"
                           THEN ReportFileName(scanId, ".json")
                           ELSE ReportFileName(scanId, ".md"),
              error |-> "",
              vulnerabilities |-> vulnerabilities,
              complianceResults |-> complianceResults,
              summary |-> summary(vulnerabilities, complianceResults)]

\* One generate-report invocation.
GenerateReport ==
    /\ gen.status = 0
    /\ gen' = ServeGenerateReport(request, scans_tbl, faults,
                                  vulnerabilities_tbl, compliance_tbl)
    /\ UNCHANGED <<vulnerabilities_tbl, compliance_tbl, request>>
    /\ UNCHANGED <<cveVars, storeVars, exportVars, cweVars>>

-----------------------------------------------------------------------------
(* export-sbom: strings and escapeXml.  A string that reaches escapeXml or  *)
(* an XML attribute is the sequence of its characters; a template literal   *)
(* of the JSON encoders is the tuple of its parts.                          *)

\* null in a column of a row
Null == <<"null">>

\* x || d on a string or a list
OrElse(x, d) == IF x = Null \/ x = <<>> THEN d ELSE x

\* ${x} in a template literal
Template(x) == IF x = Null THEN <<"n", "u", "l", "l">> ELSE x

Str_unknown == <<"u", "n", "k", "n", "o", "w", "n">>
Str_Unknown == <<"U", "n", "k", "n", "o", "w", "n">>
Str_1_0_0 == <<"1", ".", "0", ".", "0">>
Str_NOASSERTION == <<"N", "O", "A", "S", "S", "E", "R", "T", "I", "O", "N">>

\* The replacement strings of escapeXml.
Amp == <<"&", "a", "m", "p", ";">>
Lt == <<"&", "l", "t", ";">>
Gt == <<"&", "g", "t", ";">>
Quot == <<"&", "q", "u", "o", "t", ";">>
Apos == <<"&", "a", "p", "o", "s", ";">>

\* str.replace(/ch/g, token)
RECURSIVE ReplaceAll(_, _, _)
ReplaceAll(str, ch, token) ==
    IF str = <<>> THEN <<>>
    ELSE (IF Head(str) = ch THEN token ELSE <<Head(str)>>)
         \o ReplaceAll(Tail(str), ch, token)

\* A variant that replaces the ampersand last.
escapeXmlAmpersandLast(str) ==
    IF str = Null \/ str = <<>> THEN <<>>
    ELSE ReplaceAll(ReplaceAll(ReplaceAll(ReplaceAll(ReplaceAll(
             str, "<", Lt), ">", Gt), "\"", Quot), "'", Apos), "&", Amp)

escapeXml(str) ==
    IF str = Null \/ str = <<>> THEN <<>>
    ELSE ReplaceAll(ReplaceAll(ReplaceAll(ReplaceAll(ReplaceAll(
             str, "&", Amp), "<", Lt), ">", Gt), "\"", Quot), "'", Apos)

-----------------------------------------------------------------------------
(* export-sbom: the encoders.  A JSON document is the object handed to      *)
(* JSON.stringify(_, null, 2), without its creation timestamp; array index  *)
(* i of the source is position i + 1 of a sequence.                         *)

\* array.flat() of a list of lists
RECURSIVE Flatten(_)
Flatten(lists) ==
    IF lists = <<>> THEN <<>> ELSE Head(lists) \o Flatten(Tail(lists))

\* `component-${index}`
BomRef(index) == <<"component-", index>>

\* components.map((comp, index) => ({ ... }))
CycloneDXComponents(components) ==
    [k \in 1..Len(components) |->
        LET comp == components[k]
        IN  [type |-> "library",
             bom_ref |-> BomRef(k - 1),
             name |-> comp.component_name,
             version |-> OrElse(comp.version, Str_unknown),
             licenses |-> IF comp.license = Null \/ comp.license = <<>>
                          THEN <<>>
                          ELSE <<[license |-> [id |-> comp.license]]>>,
             purl |-> <<"pkg:generic/", Template(comp.component_name), "@",
                        OrElse(comp.version, Str_unknown)>>,
             properties |-> <<[name |-> "source_file",
                               value |-> OrElse(comp.source_file,
                                                Str_unknown)]>>]]

\* One entry of the vulnerabilities array.
CycloneDXVulnerability(cve, index) ==
    [id |-> cve,
     source |-> [name |-> "NVD",
                 url |-> <<"https://nvd.nist.gov/vuln/detail/", cve>>],
     affects |-> <<[ref |-> BomRef(index)]>>]

\* A variant that cites the position of the CVE id in its component's list.
CycloneDXVulnerabilitiesByVulnIndex(components) ==
    Flatten([k \in 1..Len(components) |->
        LET vulns == OrElse(components[k].vulnerabilities, <<>>)
        IN  [j \in 1..Len(vulns) |-> CycloneDXVulnerability(vulns[j], j - 1)]])

\* components.flatMap((comp, compIndex) => vulns.map(...))
CycloneDXVulnerabilities(components) ==
    Flatten([k \in 1..Len(components) |->
        LET vulns == OrElse(components[k].vulnerabilities, <<>>)
        IN  [j \in 1..Len(vulns) |-> CycloneDXVulnerability(vulns[j], k - 1)]])

generateCycloneDX(scan, components) ==
    [bomFormat |-> "CycloneDX",
     specVersion |-> "1.5",
     serialNumber |-> <<"urn:uuid:", scan.id>>,
     version |-> 1,
     metadata |->
        [tools |-> <<[vendor |-> "ECU Security Scanner",
                      name |-> "Automotive Firmware Analyzer",
                      version |-> "1.0.0"]>>,
         component |->
            [type |-> "firmware",
             name |-> scan.ecu_name,
             version |-> OrElse(scan.version, Str_unknown),
             description |-> <<Template(scan.ecu_type), " ECU from ",
                               OrElse(scan.manufacturer, Str_Unknown)>>,
             properties |->
                <<[name |-> "architecture", value |-> scan.architecture],
                  [name |-> "manufacturer",
                   value |-> OrElse(scan.manufacturer, Str_Unknown)]>>]],
     components |-> CycloneDXComponents(components),
     vulnerabilities |-> CycloneDXVulnerabilities(components)]

\* `SPDXRef-Package-${index}`
SPDXPackageId(index) == <<"SPDXRef-Package-", index>>

SPDXRootPackage(scan) ==
    [SPDXID |-> <<"SPDXRef-RootPackage">>,
     name |-> scan.ecu_name,
     versionInfo |-> OrElse(scan.version, Str_unknown),
     packageFileName |-> scan.file_name,
     downloadLocation |-> "NOASSERTION",
     filesAnalyzed |-> FALSE,
     supplier |-> IF scan.manufacturer = Null \/ scan.manufacturer = <<>>
                  THEN <<"NOASSERTION">>
                  ELSE <<"Organization: ", scan.manufacturer>>,
     primaryPackagePurpose |-> "FIRMWARE"]

\* ...components.map((comp, index) => ({ ... }))
SPDXComponentPackages(components) ==
    [k \in 1..Len(components) |->
        LET comp == components[k]
            vulns == OrElse(comp.vulnerabilities, <<>>)
        IN  [SPDXID |-> SPDXPackageId(k - 1),
             name |-> comp.component_name,
             versionInfo |-> OrElse(comp.version, Str_NOASSERTION),
             downloadLocation |-> "NOASSERTION",
             filesAnalyzed |-> FALSE,
             licenseConcluded |-> OrElse(comp.license, Str_NOASSERTION),
             licenseDeclared |-> OrElse(comp.license, Str_NOASSERTION),
             copyrightText |-> "NOASSERTION",
             externalRefs |->
                [j \in 1..Len(vulns) |->
                    [referenceCategory |-> "SECURITY",
                     referenceType |-> "cpe23Type",
                     referenceLocator |-> vulns[j]]]]]

\* A variant that numbers the related packages from 1.
SPDXRelationshipsFromOne(components) ==
    [k \in 1..Len(components) |->
        [spdxElementId |-> <<"SPDXRef-RootPackage">>,
         relationshipType |-> "CONTAINS",
         relatedSpdxElement |-> SPDXPackageId(k)]]

\* components.map((_, index) => ({ ... }))
SPDXRelationships(components) ==
    [k \in 1..Len(components) |->
        [spdxElementId |-> <<"SPDXRef-RootPackage">>,
         relationshipType |-> "CONTAINS",
         relatedSpdxElement |-> SPDXPackageId(k - 1)]]

generateSPDX(scan, components) ==
    [spdxVersion |-> "SPDX-2.3",
     dataLicense |-> "CC0-1.0",
     SPDXID |-> "SPDXRef-DOCUMENT",
     name |-> <<"SBOM for ", Template(scan.ecu_name)>>,
     documentNamespace |-> <<"https://spdx.org/spdxdocs/", scan.id>>,
     creationInfo |-> [creators |-> <<"Tool: ECU Security Scanner-1.0.0">>,
                       licenseListVersion |-> "3.19"],
     packages |-> <<SPDXRootPackage(scan)>>
                  \o SPDXComponentPackages(components),
     relationships |-> SPDXRelationships(components)]

\* The characters of a scan id (a uuid).
IdString(id) == IF id = "S1" THEN <<"S", "1">> ELSE <<"S", "9">>

\* http://standards.iso.org/iso/19770/-2/2015/schema.xsd
SwidNamespace ==
    <<"h", "t", "t", "p", ":", "/", "/", "s", "t", "a", "n",
      "d", "a", "r", "d", "s", ".", "i", "s", "o", ".", "o",
      "r", "g", "/", "i", "s", "o", "/", "1", "9", "7", "7",
      "0", "/", "-", "2", "/", "2", "0", "1", "5", "/", "s",
      "c", "h", "e", "m", "a", ".", "x", "s", "d">>

\* name="value" inside the tag of an element
Attr(element, name, value) ==
    [element |-> element, name |-> name, value |-> value]

\* The document as the attributes it emits, in document order.  The
\* `entities` and `payloads` strings of lines 192-202 are built and never
\* interpolated into the document.
generateSWID(scan, components) ==
    [xml |->
        <<Attr("SoftwareIdentity", "xmlns", SwidNamespace),
          Attr("SoftwareIdentity", "name", escapeXml(scan.ecu_name)),
          Attr("SoftwareIdentity", "tagId", IdString(scan.id)),
          Attr("SoftwareIdentity", "version",
               escapeXml(OrElse(scan.version, Str_1_0_0))),
          Attr("SoftwareIdentity", "versionScheme", <<"s", "e", "m", "v", "e", "r">>),
          Attr("Entity", "name",
               escapeXml(OrElse(scan.manufacturer, Str_Unknown))),
          Attr("Entity", "role", <<"t", "a", "g", "C", "r", "e", "a", "t", "o", "r">>),
          Attr("Entity", "name",
               <<"E", "C", "U", " ", "S", "e", "c", "u", "r", "i", "t",
                 "y", " ", "S", "c", "a", "n", "n", "e", "r">>),
          Attr("Entity", "role", <<"t", "a", "g", "C", "r", "e", "a", "t", "o", "r">>),
          Attr("Meta", "product", escapeXml(scan.ecu_name)),
          Attr("Meta", "colloquialVersion",
               escapeXml(OrElse(scan.version, Str_unknown))),
          Attr("Meta", "revision", OrElse(scan.architecture, Str_unknown)),
          Attr("Meta", "edition", escapeXml(scan.ecu_type)),
          Attr("Directory", "name", <<"c", "o", "m", "p", "o", "n", "e", "n", "t", "s">>)>>
        \o Flatten([k \in 1..Len(components) |->
              <<Attr("File", "name", escapeXml(components[k].component_name)),
                Attr("File", "version",
                     escapeXml(OrElse(components[k].version, Str_unknown)))>>])]

-----------------------------------------------------------------------------
(* export-sbom: the handler *)

ExportFormats == {"cyclonedx", "spdx", "swid"}

NoDocument == [none |-> TRUE]

NoExport == [status |-> 0, error |-> "", data |-> NoDocument,
             filename |-> <<>>, contentType |-> ""]

ExportError(status, msg) ==
    [status |-> status, error |-> msg, data |-> NoDocument,
     filename |-> <<>>, contentType |-> ""]

\* JSON.stringify({ data: exportData, filename, contentType })
ExportEnvelope(exportData, filename, contentType) ==
    [status |-> 200, error |-> "", data |-> exportData,
     filename |-> filename, contentType |-> contentType]

\* .from('sbom_components').select('*').eq('scan_id', scanId)
SelectByScanId(sbom, scanId) ==
    SelectSeq(sbom, LAMBDA row : row.scan_id = scanId)

\* The handler, from req.json() to the Response it returns.
ServeExportSbom(r, scans, sbom, failing) ==
    IF r.malformed
    THEN ExportError(500, "Unexpected end of JSON input")
    ELSE
    LET scanRows == Single(SelectScan(scans, r.scanId), "scans" \in failing)
        components == QueryData("sbom_components" \notin failing,
                                SelectByScanId(sbom, r.scanId))
    IN  IF scanRows.data = {} \/ components.isNull
        THEN ExportError(404, "Scan or components not found")
        ELSE LET scan == CHOOSE row \in scanRows.data : TRUE
             IN  CASE r.format = "cyclonedx" ->
                        ExportEnvelope(
                            generateCycloneDX(scan, components.rows),
                            <<Template(scan.ecu_name), "-sbom-cyclonedx.json">>,
                            "application/json")
                   [] r.format = "spdx" ->
                        ExportEnvelope(
                            generateSPDX(scan, components.rows),
                            <<Template(scan.ecu_name), "-sbom-spdx.json">>,
                            "application/json")
                   [] r.format = "swid" ->
                        ExportEnvelope(
                            generateSWID(scan, components.rows),
                            <<Template(scan.ecu_name), "-sbom-swid.xml">>,
                            "application/xml")
                   [] OTHER ->
                        ExportError(400,
                            "Invalid format. Use: cyclonedx, spdx, or swid")

\* One export-sbom invocation.
ExportSbom ==
    /\ exportResp.status = 0
    /\ exportResp' = ServeExportSbom(exportRequest, scans_tbl, sbom_tbl, faults)
    /\ UNCHANGED <<exportRequest, storeVars>>
    /\ UNCHANGED <<cveVars, reportVars, request, cweVars>>

-----------------------------------------------------------------------------
(* fetch-cve: CWE extraction.  An optional array is [isNull, rows].         *)

Present(list) == [isNull |-> FALSE, rows |-> list]

NotExtracted == NoData

\* cve.weaknesses?.flatMap(w => w.description?.map(d => d.value))
\*    .filter(Boolean) || []
\* flatMap flattens the arrays its callback returns and keeps any other
\* value, here undefined, as an element.
cweIds(ws) ==
    IF ws.isNull THEN <<>>
    ELSE SelectSeq(
             Flatten([k \in 1..Len(ws.rows) |->
                 LET description == ws.rows[k].description
                 IN  IF description.isNull THEN <<Undefined>>
                     ELSE [j \in 1..Len(description.rows) |->
                              description.rows[j].value]]),
             LAMBDA v : ~Falsy(v))

\* The extraction step of one freshly resolved entry.
ExtractCweIds ==
    /\ cwe_ids.isNull
    /\ cwe_ids' = Present(cweIds(weaknesses))
    /\ UNCHANGED weaknesses
    /\ UNCHANGED <<cveVars, reportVars, request, storeVars, exportVars>>

-----------------------------------------------------------------------------
(* Initial states and specifications *)

\* Tables of at most n rows over the given keys.
Tables(keys, n) ==
    {t \in [Range(keys) -> 0..n] : TableSize(t) <= n}

\* Rows present before any invocation: per id none, or one fetched at time 0.
InitialCaches == {{Row(id, 0, 0) : id \in S} : S \in SUBSET CveIds}

InitCve ==
    /\ cve_cache \in InitialCaches
    /\ now = Epoch
    /\ pc = [i \in Invocations |-> "idle"]
    /\ cveId = [i \in Invocations |-> ""]
    /\ cached = [i \in Invocations |-> {}]
    /\ nvdResponse = [i \in Invocations |-> "none"]
    /\ cveData = [i \in Invocations |-> {}]
    /\ upsertError = [i \in Invocations |-> "none"]
    /\ resp = [i \in Invocations |-> NoResp]
    /\ fetches = [i \in Invocations |-> 0]
    /\ responses = [i \in Invocations |-> 0]
    /\ wrote = [i \in Invocations |-> FALSE]
    /\ checkedAt = [i \in Invocations |-> -1]
    /\ lastUpsert = [id \in CveIds |-> {}]

\* No invocation of fetch-cve, an empty cache.
CveIdle == InitCve /\ cve_cache = {}

\* A scan whose optional columns are null.
PlainScan ==
    [id |-> "S1", ecu_name |-> <<"E", "C", "U">>, ecu_type |-> <<"B", "C", "M">>,
     version |-> Null, manufacturer |-> Null,
     architecture |-> <<"a", "r", "m">>, file_name |-> <<"f", "w">>]

\* A request for the JSON report of the scan, posted to the handler.
JsonRequest ==
    [client |-> "direct", malformed |-> FALSE, scanId |-> "S1",
     format |-> "json"]

\* The store holds the scan and answers every query.
StoreIdle ==
    /\ scans_tbl = {PlainScan}
    /\ sbom_tbl = <<>>
    /\ faults = {}

\* No report is asked for.
ReportIdle ==
    /\ vulnerabilities_tbl = [s \in Range(Severities) |-> 0]
    /\ compliance_tbl = [s \in Range(Statuses) |-> 0]
    /\ gen = NoGen
    /\ request = JsonRequest

\* No export is asked for.
ExportIdle ==
    /\ exportRequest = [malformed |-> FALSE, scanId |-> "S1",
                        format |-> "cyclonedx"]
    /\ exportResp = NoExport

\* No upstream record is at hand.
CweIdle ==
    /\ weaknesses = NoData
    /\ cwe_ids = NotExtracted

\* fetch-cve alone: the scan tables are empty and no report is asked for.
Init ==
    /\ InitCve
    /\ ReportIdle
    /\ StoreIdle
    /\ ExportIdle
    /\ CweIdle

Next ==
    \/ \E i \in Invocations : Start(i)
    \/ \E i \in Invocations : LookupRead(i)
    \/ \E i \in Invocations : LookupReturn(i)
    \/ \E i \in Invocations : FetchReturn(i)
    \/ \E i \in Invocations : UpsertReturn(i)
    \/ Tick

Spec == Init /\ [][Next]_vars

\* generate-report on any small scan.
InitReport ==
    /\ CveIdle
    /\ vulnerabilities_tbl \in Tables(Severities, MaxVulns)
    /\ compliance_tbl \in Tables(Statuses, MaxResults)
    /\ gen = NoGen
    /\ request = JsonRequest
    /\ scans_tbl = {PlainScan}
    /\ sbom_tbl = <<>>
    /\ faults \in SUBSET {"vulnerabilities", "compliance_results"}
    /\ ExportIdle
    /\ CweIdle

NextReport == GenerateReport

SpecReport == InitReport /\ [][NextReport]_vars

\* generate-report on a scan with many compliance results.
InitScore ==
    /\ CveIdle
    /\ vulnerabilities_tbl = [s \in Range(Severities) |-> 0]
    /\ compliance_tbl \in Tables(Statuses, MaxScoreRows)
    /\ gen = NoGen
    /\ request = JsonRequest
    /\ scans_tbl = {PlainScan}
    /\ sbom_tbl = <<>>
    /\ faults \in SUBSET {"compliance_results"}
    /\ ExportIdle
    /\ CweIdle

SpecScore == InitScore /\ [][NextReport]_vars

\* Lists of at most n elements of S.
ListsUpTo(S, n) == UNION {[1..k -> S] : k \in 0..n}

\* generate-report: any request, any failing queries, a small scan.
ReportRequests ==
    {[client |-> "direct", malformed |-> TRUE, scanId |-> Undefined,
      format |-> Undefined]}
    \cup {[client |-> "direct", malformed |-> FALSE, scanId |-> s, format |-> f] :
            s \in {Undefined, "", "S1", "S9"},
            f \in ReportFormats \cup {Undefined}}
    \cup {[client |-> "hook", malformed |-> FALSE, scanId |-> s, format |-> f] :
            s \in {"", "S1", "S9"},
            f \in ReportFormats \cup {Undefined}}

InitDispatch ==
    /\ CveIdle
    /\ vulnerabilities_tbl \in Tables(Severities, MaxDispatchRows)
    /\ compliance_tbl = [s \in Range(Statuses) |-> 0]
    /\ gen = NoGen
    /\ request \in ReportRequests
    /\ scans_tbl = {PlainScan}
    /\ sbom_tbl = <<>>
    /\ faults \in SUBSET Queries
    /\ ExportIdle
    /\ CweIdle

SpecDispatch == InitDispatch /\ [][NextReport]_vars

\* export-sbom: any request, the scan's components fetched or not.
CveLists ==
    {Null, <<>>, <<"CVE-A">>, <<"CVE-A", "CVE-B">>, <<"CVE-A", "CVE-A">>}

ComponentRow(name, version, license, vulns) ==
    [scan_id |-> "S1", component_name |-> name, version |-> version,
     license |-> license, source_file |-> Null, vulnerabilities |-> vulns]

ComponentRows ==
    {ComponentRow(<<"a">>, <<"1">>, <<"M", "I", "T">>, v) : v \in CveLists}
    \cup {ComponentRow(<<"b">>, Null, Null, v) : v \in CveLists}

ExportRequests ==
    {[malformed |-> TRUE, scanId |-> Undefined, format |-> Undefined]}
    \cup {[malformed |-> FALSE, scanId |-> s, format |-> f] :
            s \in {"S1", "S9"},
            f \in ExportFormats \cup {"xml", Undefined}}

InitExport ==
    /\ CveIdle
    /\ ReportIdle
    /\ scans_tbl = {PlainScan}
    /\ sbom_tbl \in ListsUpTo(ComponentRows, MaxComponents)
    /\ faults \in SUBSET {"scans", "sbom_components"}
    /\ exportRequest \in ExportRequests
    /\ exportResp = NoExport
    /\ CweIdle

NextExport == ExportSbom

SpecExport == InitExport /\ [][NextExport]_vars

\* export-sbom as SWID: one free-text column holds any short string.
Chars == {"&", "<", ">", "\"", "'", ";", "a"}

Texts == ListsUpTo(Chars, MaxStrLen) \cup {Amp, Lt, Gt, Quot, Apos}

ScanTextColumns ==
    {"ecu_name", "version", "manufacturer", "architecture", "ecu_type"}

InitSwid ==
    /\ CveIdle
    /\ ReportIdle
    /\ \E text \in Texts :
         \/ /\ scans_tbl \in {{[PlainScan EXCEPT ![c] = text]} :
                                 c \in ScanTextColumns}
            /\ sbom_tbl \in {<<>>, <<ComponentRow(<<"a">>, Null, Null, Null)>>}
         \/ /\ scans_tbl = {PlainScan}
            /\ sbom_tbl \in {<<ComponentRow(text, Null, Null, Null)>>,
                             <<ComponentRow(<<"a">>, text, Null, Null)>>}
    /\ faults = {}
    /\ exportRequest = [malformed |-> FALSE, scanId |-> "S1", format |-> "swid"]
    /\ exportResp = NoExport
    /\ CweIdle

SpecSwid == InitSwid /\ [][NextExport]_vars

\* fetch-cve: the CWE ids of any short weaknesses list.
CweValues == {"CWE-79", "CWE-89", Undefined}

Descriptions ==
    {NoData} \cup {Present(l) :
        l \in ListsUpTo([value : CweValues], MaxDescriptions)}

InitCwe ==
    /\ CveIdle
    /\ ReportIdle
    /\ StoreIdle
    /\ ExportIdle
    /\ weaknesses \in {NoData} \cup {Present(l) :
           l \in ListsUpTo([description : Descriptions], MaxWeaknesses)}
    /\ cwe_ids = NotExtracted

NextCwe == ExtractCweIds

SpecCwe == InitCwe /\ [][NextCwe]_vars

-----------------------------------------------------------------------------
(* fetch-cve: properties *)

Done(i) == pc[i] = "done"
Checked(i) == checkedAt[i] # -1

\* The TTL rule, written out: the looked-up row is younger than 24 hours at
\* the time the handler read the clock.
FreshAtCheck(i) ==
    /\ cached[i] # {}
    /\ \A row \in cached[i] : checkedAt[i] - row.fetched_at < 24 * 60 * 60 * 1000

StaleAtCheck(i) ==
    /\ cached[i] # {}
    /\ \A row \in cached[i] : checkedAt[i] - row.fetched_at >= 24 * 60 * 60 * 1000

ReturnsEntry(i, rowset) ==
    /\ Done(i)
    /\ resp[i].status = 200
    /\ resp[i].error = ""
    /\ resp[i].entry = rowset

\* C1: freshness rule. Once the lookup has returned: if it found a row whose
\* age (now - fetched_at) is strictly below 24h, no fetch is issued and the
\* response is that row unchanged; if it found none, or the row's age is 24h
\* or more, fetch() has been called.
C1_FreshnessRule ==
    \A i \in Invocations :
        Checked(i) =>
            IF FreshAtCheck(i)
            THEN fetches[i] = 0 /\ ReturnsEntry(i, cached[i])
            ELSE fetches[i] >= 1

\* A row aged exactly 23h is served from the cache while, an hour later, the
\* same row aged exactly 24h sends the other invocation upstream.
C1_Witness ==
    \E i, j \in Invocations :
        /\ FreshAtCheck(i) /\ ReturnsEntry(i, cached[i]) /\ fetches[i] = 0
        /\ \A row \in cached[i] : checkedAt[i] - row.fetched_at = 23 * HourMs
        /\ StaleAtCheck(j) /\ fetches[j] = 1
        /\ \A row \in cached[j] : checkedAt[j] - row.fetched_at = oneDayMs

\* C2: stale fallback on a non-success upstream status. The response is the
\* row the lookup found, whatever its age, and 502 only when it found none.
C2_StaleFallbackNotOk ==
    \A i \in Invocations :
        nvdResponse[i] = "not_ok" =>
            IF cached[i] # {}
            THEN ReturnsEntry(i, cached[i])
            ELSE Done(i) /\ resp[i].status = 502 /\ resp[i].entry = {}

\* One invocation falls back to a row older than 24h, the other has no row
\* and answers 502.
C2_Witness ==
    \E i, j \in Invocations :
        /\ nvdResponse[i] = "not_ok" /\ StaleAtCheck(i)
        /\ ReturnsEntry(i, cached[i])
        /\ \A row \in cached[i] : checkedAt[i] - row.fetched_at > oneDayMs
        /\ nvdResponse[j] = "not_ok" /\ cached[j] = {} /\ resp[j].status = 502

\* C3: a rejected fetch (transport error) is handled like a non-success
\* status: the looked-up row if any, 502 otherwise.
C3_TransportErrorFallback ==
    \A i \in Invocations :
        nvdResponse[i] = "throws" =>
            IF cached[i] # {}
            THEN ReturnsEntry(i, cached[i])
            ELSE Done(i) /\ resp[i].status = 502

\* C4: 404 exactly when the upstream answered successfully without a record
\* and the id has no cache row; never 404 for an id with a cache row.
C4_NotFoundOnlyUncached ==
    \A i \in Invocations :
        /\ (nvdResponse[i] = "ok_empty" /\ cached[i] = {}) => resp[i].status = 404
        /\ resp[i].status = 404 => (nvdResponse[i] = "ok_empty" /\ cached[i] = {})

\* C5: cache frame. Only an invocation whose upstream fetch returned a
\* matching record changes cve_cache: an invocation that ended as a fresh hit,
\* a stale fallback, 400, 404 or 502 has changed no row.
C5_CacheFrame ==
    \A i \in Invocations :
        /\ wrote[i] => nvdResponse[i] = "ok_match"
        /\ (Done(i) /\ resp[i].status \in {400, 404, 502}) => ~wrote[i]
        /\ (Done(i) /\ cached[i] # {} /\ ReturnsEntry(i, cached[i])) => ~wrote[i]

\* An uncached id resolved to not-found next to a cached row, nothing written;
\* and, in the same run, an invocation that did write.
C5_Witness ==
    \E i, j \in Invocations :
        /\ Done(i) /\ resp[i].status = 404 /\ cached[i] = {} /\ ~wrote[i]
        /\ cve_cache # {}
        /\ wrote[j] /\ nvdResponse[j] = "ok_match"

\* C6: a success carrying a freshly fetched entry implies the upsert
\* succeeded; a failed upsert is answered with 500.
C6_UpsertThenReturn ==
    \A i \in Invocations :
        (Done(i) /\ nvdResponse[i] = "ok_match") =>
            \/ upsertError[i] = "null" /\ ReturnsEntry(i, cveData[i])
            \/ upsertError[i] = "error" /\ resp[i].status = 500

\* C7: at most one fetch() per invocation, none before the lookup has
\* returned, and one Response exactly when the invocation has ended; an
\* invocation that has not ended can always take its next step.
C7_SingleFetchSingleResponse ==
    \A i \in Invocations :
        /\ fetches[i] <= 1
        /\ pc[i] \in {"idle", "lookup", "check"} => fetches[i] = 0
        /\ fetches[i] = 1 => Checked(i)
        /\ responses[i] = (IF Done(i) THEN 1 ELSE 0)
        /\ Done(i) <=> resp[i] # NoResp
        /\ ~Done(i) => ENABLED (\/ Start(i) \/ LookupRead(i) \/ LookupReturn(i)
                                \/ FetchReturn(i) \/ UpsertReturn(i))

\* Both invocations ended after one failed fetch each.
C7_Witness ==
    \A i \in Invocations :
        /\ Done(i) /\ fetches[i] = 1 /\ responses[i] = 1
        /\ nvdResponse[i] \in {"throws", "not_ok"}

\* C8: last-write-wins. cve_cache never holds two rows for an id, and once
\* an upsert for an id was applied the row of that id is the row of the upsert
\* applied last, in particular after two concurrent resolutions of the id.
C8_LastWriteWins ==
    \A id \in CveIds :
        /\ Cardinality(SelectByCveId(cve_cache, id)) <= 1
        /\ lastUpsert[id] # {} => SelectByCveId(cve_cache, id) = lastUpsert[id]

\* Both invocations missed on the same id (one row stale, nothing fresh),
\* each fetched, both upserts were applied, and the row left is the one built
\* first, whose upsert was applied last.
C8_Witness ==
    \E i, j \in Invocations, id \in CveIds :
        /\ i # j /\ cveId[i] = id /\ cveId[j] = id
        /\ Done(i) /\ Done(j)
        /\ fetches[i] = 1 /\ fetches[j] = 1
        /\ upsertError[i] = "null" /\ upsertError[j] = "null"
        /\ cveData[i] # cveData[j]
        /\ \A a \in cveData[i], b \in cveData[j] : a.fetched_at < b.fetched_at
        /\ SelectByCveId(cve_cache, id) = cveData[i]
        /\ lastUpsert[id] = cveData[i]

-----------------------------------------------------------------------------
(* generate-report: properties *)

\* C9: the five severity buckets of vulnerability_breakdown add up to
\* total_vulnerabilities, which is N, the number of vulnerabilities of the
\* scan (the rows the vulnerabilities query returned; 0 when its data is null).
C9_SeverityBucketsSum ==
    gen.status = 200 =>
        LET b == gen.summary.vulnerability_breakdown
            total == gen.summary.total_vulnerabilities
        IN  /\ b.critical + b.high + b.medium + b.low + b.info = total
            /\ total = IF gen.vulnerabilities.isNull
                       THEN 0
                       ELSE TableSize(vulnerabilities_tbl)

\* Scan S1: critical x1, high x2, low x1 and pass x3, fail x1.
C9_Witness ==
    /\ gen.status = 200
    /\ ~gen.vulnerabilities.isNull
    /\ vulnerabilities_tbl = [critical |-> 1, high |-> 2, medium |-> 0,
                              low |-> 1, info |-> 0]
    /\ gen.summary.vulnerability_breakdown = vulnerabilities_tbl
    /\ gen.summary.total_vulnerabilities = 4
    /\ compliance_tbl = [pass |-> 3, fail |-> 1, warning |-> 0]
    /\ gen.summary.compliance_score = 75

\* C10: compliance_score is an integer in 0..100, 0 when there is no pass,
\* fail or warning row, and otherwise pass / (pass + fail + warning) * 100
\* rounded to the nearest integer (a tie going up, as Math.round does).
C10_ComplianceScore ==
    gen.status = 200 =>
        LET c == gen.summary.compliance_breakdown
            n == c.pass + c.fail + c.warning
            score == gen.summary.compliance_score
        IN  /\ score \in 0..100
            /\ n = 0 => score = 0
            /\ n > 0 => score = (200 * c.pass + n) \div (2 * n)

\* C11: a request with format pdf gets the Response the same request gets
\* with format json: on success the JSON report under the filename
\* scan-report-<scanId>.json, never the Markdown document.
C11_PdfDegradesToJson ==
    (gen.status # 0 /\ ~request.malformed /\ request.format = "pdf") =>
        /\ gen = ServeGenerateReport([request EXCEPT !.format = "json"],
                                     scans_tbl, faults,
                                     vulnerabilities_tbl, compliance_tbl)
        /\ gen.contentType # "text/markdown"
        /\ gen.status = 200 =>
               gen.filename = ReportFileName(request.scanId, ".json")

\* The queries the invocation made: the scan query once the body carries a
\* scanId, the four others once the scan was found.
QueriesMade ==
    IF request.malformed \/ Falsy(RequestBody(request).scanId) THEN {}
    ELSE IF "scans" \in faults
            \/ SelectScan(scans_tbl, RequestBody(request).scanId) = {}
         THEN {"scans"}
         ELSE Queries

\* C12: when a query the invocation made fails, the Response is a 500 that
\* carries the store's message; when none fails and the scan is missing it is
\* a 404; in neither case is it a successful report.
C12_StoreFailures ==
    gen.status # 0 =>
        LET failed == QueriesMade \cap faults
            missing == /\ QueriesMade # {}
                       /\ SelectScan(scans_tbl,
                                     RequestBody(request).scanId) = {}
        IN  /\ failed # {} => gen.status = 500 /\ gen.error = StoreMessage
            /\ (failed = {} /\ missing) => gen.status = 404
            /\ (failed # {} \/ missing) => gen.status # 200

-----------------------------------------------------------------------------
(* export-sbom: properties *)

\* C13: a request whose format is none of cyclonedx, spdx, swid gets the
\* invalid-format Response (400) and no document, whatever its scanId.
C13_InvalidFormat ==
    (exportResp.status # 0 /\ ~exportRequest.malformed
        /\ exportRequest.format \notin ExportFormats) =>
        /\ exportResp.status = 400
        /\ exportResp.data = NoDocument

\* The CVE ids attached to a component.
CveIdsOf(comp) ==
    IF comp.vulnerabilities = Null THEN {} ELSE Range(comp.vulnerabilities)

\* C14: the CycloneDX `components` array has the length and the order of the
\* component list, position i carries bom-ref component-<i>, every CVE id of
\* component i has an entry of `vulnerabilities` whose `affects` references
\* component-<i>, and `vulnerabilities` has no other entry.
C14_CycloneDX ==
    (exportResp.status = 200 /\ exportRequest.format = "cyclonedx") =>
        LET doc == exportResp.data
            n == Len(sbom_tbl)
        IN  /\ Len(doc.components) = n
            /\ \A k \in 1..n :
                 /\ doc.components[k].name = sbom_tbl[k].component_name
                 /\ doc.components[k].bom_ref = <<"component-", k - 1>>
            /\ \A k \in 1..n : \A cve \in CveIdsOf(sbom_tbl[k]) :
                 \E e \in 1..Len(doc.vulnerabilities) :
                    /\ doc.vulnerabilities[e].id = cve
                    /\ doc.vulnerabilities[e].affects
                           = <<[ref |-> <<"component-", k - 1>>]>>
            /\ \A e \in 1..Len(doc.vulnerabilities) :
                 \E k \in 1..n :
                    /\ doc.vulnerabilities[e].id \in CveIdsOf(sbom_tbl[k])
                    /\ doc.vulnerabilities[e].affects
                           = <<[ref |-> <<"component-", k - 1>>]>>

\* Two components, the second one with two CVE ids.
C14_Witness ==
    /\ exportResp.status = 200
    /\ exportRequest.format = "cyclonedx"
    /\ Len(sbom_tbl) = 2
    /\ sbom_tbl[1].vulnerabilities = Null
    /\ sbom_tbl[2].vulnerabilities = <<"CVE-A", "CVE-B">>
    /\ Len(exportResp.data.components) = 2
    /\ Len(exportResp.data.vulnerabilities) = 2
    /\ exportResp.data.vulnerabilities[2].id = "CVE-B"
    /\ exportResp.data.vulnerabilities[2].affects
           = <<[ref |-> <<"component-", 1>>]>>

\* C15: for n components the SPDX document has n + 1 packages, the root
\* SPDXRef-RootPackage first and SPDXRef-Package-<i> at position i + 1, and
\* `relationships` has one CONTAINS entry per component package: each
\* relatedSpdxElement is the id of exactly one package, none occurs twice.
C15_SPDX ==
    (exportResp.status = 200 /\ exportRequest.format = "spdx") =>
        LET doc == exportResp.data
            n == Len(sbom_tbl)
            related(r) == doc.relationships[r].relatedSpdxElement
        IN  /\ Len(doc.packages) = n + 1
            /\ doc.packages[1].SPDXID = <<"SPDXRef-RootPackage">>
            /\ \A k \in 1..n :
                 doc.packages[k + 1].SPDXID = <<"SPDXRef-Package-", k - 1>>
            /\ Len(doc.relationships) = n
            /\ \A r \in 1..Len(doc.relationships) :
                 /\ doc.relationships[r].relationshipType = "CONTAINS"
                 /\ Cardinality({p \in 2..Len(doc.packages) :
                        doc.packages[p].SPDXID = related(r)}) = 1
            /\ \A p \in 2..Len(doc.packages) :
                 Cardinality({r \in 1..Len(doc.relationships) :
                        related(r) = doc.packages[p].SPDXID}) = 1

\* Two components.
C15_Witness ==
    /\ exportResp.status = 200
    /\ exportRequest.format = "spdx"
    /\ Len(sbom_tbl) = 2
    /\ Len(exportResp.data.packages) = 3
    /\ Len(exportResp.data.relationships) = 2
    /\ exportResp.data.relationships[2].relatedSpdxElement
           = <<"SPDXRef-Package-", 1>>

\* The five replacements as characters and their tokens.
Entities ==
    {<<"&", Amp>>, <<"<", Lt>>, <<">", Gt>>, <<"\"", Quot>>, <<"'", Apos>>}

\* The output token of one input character.
TokenOf(ch) ==
    IF \E e \in Entities : e[1] = ch
    THEN (CHOOSE e \in Entities : e[1] = ch)[2]
    ELSE <<ch>>

IsPrefix(token, str) ==
    Len(token) <= Len(str) /\ SubSeq(str, 1, Len(token)) = token

\* XML unescaping of the five predefined entities, left to right.
RECURSIVE Unescape(_)
Unescape(str) ==
    IF str = <<>> THEN <<>>
    ELSE IF \E e \in Entities : IsPrefix(e[2], str)
    THEN LET e == CHOOSE x \in Entities : IsPrefix(x[2], str)
         IN  <<e[1]>> \o Unescape(SubSeq(str, Len(e[2]) + 1, Len(str)))
    ELSE <<Head(str)>> \o Unescape(Tail(str))

\* No `&` but the start of one of the five entities, and no raw < > " '.
RECURSIVE NoRawSpecial(_)
NoRawSpecial(str) ==
    IF str = <<>> THEN TRUE
    ELSE IF Head(str) \in {"<", ">", "\"", "'"} THEN FALSE
    ELSE IF Head(str) = "&"
    THEN /\ \E e \in Entities : IsPrefix(e[2], str)
         /\ LET e == CHOOSE x \in Entities : IsPrefix(x[2], str)
            IN  NoRawSpecial(SubSeq(str, Len(e[2]) + 1, Len(str)))
    ELSE NoRawSpecial(Tail(str))

\* The scan row the export was made from.
ExportedScan == CHOOSE row \in scans_tbl : TRUE

\* C16: escapeXml maps every character of its input to exactly one token,
\* its entity for & < > " ' and itself otherwise, so that no ampersand of an
\* entity is escaped again and unescaping the output gives the input back
\* (seen on the `name` attribute, which is escapeXml(scan.ecu_name)).
C16_EscapeXml ==
    (exportResp.status = 200 /\ exportRequest.format = "swid") =>
        LET str == ExportedScan.ecu_name
            out == exportResp.data.xml[2].value
        IN  /\ out = escapeXml(str)
            /\ out = Flatten([k \in 1..Len(str) |-> TokenOf(str[k])])
            /\ Unescape(out) = str
            /\ NoRawSpecial(out)

\* An ampersand followed by a character a later replacement escapes.
C16_Witness ==
    /\ exportResp.status = 200
    /\ exportRequest.format = "swid"
    /\ ExportedScan.ecu_name = <<"&", "<", "a">>
    /\ exportResp.data.xml[2].value
           = <<"&", "a", "m", "p", ";", "&", "l", "t", ";", "a">>

\* C17: no attribute value of the SWID document contains a raw & < > " or '
\* taken from a column of the scan or of a component.
C17_SwidAttributesEscaped ==
    (exportResp.status = 200 /\ exportRequest.format = "swid") =>
        \A k \in 1..Len(exportResp.data.xml) :
            NoRawSpecial(exportResp.data.xml[k].value)

-----------------------------------------------------------------------------
(* fetch-cve: CWE extraction properties *)

\* The values present in the weaknesses list.
PresentCweValues ==
    IF weaknesses.isNull THEN {}
    ELSE {v \in UNION {IF w.description.isNull THEN {}
                       ELSE {d.value : d \in Range(w.description.rows)} :
                       w \in Range(weaknesses.rows)} : ~Falsy(v)}

\* C18: cwe_ids holds the CWE ids present in the weaknesses list, absent
\* entries dropped, and no id occurs twice in it.
C18_CweIdsNoDuplicates ==
    ~cwe_ids.isNull =>
        /\ Range(cwe_ids.rows) = PresentCweValues
        /\ \A i, j \in 1..Len(cwe_ids.rows) :
               i # j => cwe_ids.rows[i] # cwe_ids.rows[j]

====
